---- MODULE Spec2Model ----
(***************************************************************************)
(* QueryIQ: the benchmark engine (app/services/benchmark_engine.py), the   *)
(* Gemini rewrite wrapper (app/services/gemini_optimizer.py) and the rule  *)
(* engine (app/services/rule_engine.py) as state machines.                 *)
(*                                                                         *)
(* Numbers: timings and averages are exact rationals [n, d] (d > 0, in     *)
(* lowest terms); floating-point rounding is not modelled.  Confidences    *)
(* are hundredths (85 is 0.85).                                            *)
(***************************************************************************)
EXTENDS Integers, Sequences, FiniteSets, TLC

\* ------------------------------------------------------------------------
\* Bounds of the model
\* ------------------------------------------------------------------------
MaxIter == 2

MaxRespLen == 3

\* measured durations of one successful fetch, in ms
Durations == {0, 50}

\* tables the benchmarked query may reference
Tables == {"users", "orders"}

\* ------------------------------------------------------------------------
\* Program constants
\* ------------------------------------------------------------------------
SENTINEL == 10000

max_suggestions_per_query == 10

slow_query_threshold_ms == 1000

QueryId == "q1"

OriginalQuery == "SELECT * FROM users"

RewrittenQuery == "SELECT id FROM users"

VARIABLES
    \* run_comprehensive_benchmark
    iterations,         \* argument
    query_tables,       \* tables the FROM/JOIN regex finds in query_text
    pc,                 \* position inside run_comprehensive_benchmark
    table_schemas,      \* local of run_comprehensive_benchmark
    optimization_result,\* <<>> or <<OptimizationResult>>
    original_times,
    optimized_times,
    result,             \* <<>> or <<BenchmarkResult>> that was returned
    \* _benchmark_query
    which,              \* "none", "orig" or "opt": the call in progress
    bpc,                \* position inside _benchmark_query
    i,                  \* loop index
    times,              \* local list of timings
    bqRaised,           \* an exception escaped _benchmark_query
    conns,              \* state of the asyncpg connection of each call
    log,                \* history: what each call did, in order
    \* _store_benchmark_result
    db_rows,            \* rows of performance_improvements
    session_state,      \* "idle", "committed" or "rolled_back"
    \* GeminiQueryOptimizer.optimize_query on its own
    gem_pc,
    gem_response,
    gem_result,
    \* RuleEngine.generate_suggestions
    re_pc,
    query_log,          \* the QueryLog argument
    query_feature,      \* <<>> (None) or <<QueryFeature>>
    execution_plan,     \* <<>> (None) or <<ExecutionPlan>>
    suggestions,        \* the list generate_suggestions returned
    session_new,        \* objects added to the session
    suggestion_rows,    \* committed rows of the suggestions table
    \* PlanParser.parse_plan_json and analyze_plan
    pp_pc,
    plan_input,         \* the plan_json argument
    plan_node,          \* <<>> or <<root PlanNode>> that parse_plan_json returned
    plan_analysis,      \* <<>> or <<the dict analyze_plan returned>>
    \* FeatureExtractor.extract_query_features
    fe_pc,
    fe_query,           \* the query text, as what the parser and the regexes see
    fe_features,        \* <<>> or <<the dict returned>>
    fe_raised,          \* an exception left extract_query_features
    \* FeatureExtractor._calculate_indexed_tables_pct and _estimate_table_size
    cf_pc,
    tables_scanned,     \* plan_features["tables_scanned"]
    cf_k,               \* tables handled so far by the running loop
    indexed_count,
    checked,
    total_mb,
    counted,
    indexed_tables_pct, \* <<>> or <<value returned>>
    avg_table_size_mb,  \* <<>> or <<value returned>>
    lookups,            \* history: the catalog queries issued, in order
    \* BenchmarkEngine._extract_table_schemas on its own
    sx_pc,
    sx_order,           \* the referenced tables, in the order the set is iterated
    sx_outcome,         \* what the catalog answers for each of them
    sx_schemas,         \* <<>> or <<the map returned>>
    \* the suggestion and benchmark routes on one query
    rt_feature,         \* the stored QueryFeature of the query, or <<>>
    rt_plan,            \* the stored ExecutionPlan of the query, or <<>>
    rt_rows,            \* committed rows of the suggestions table
    rt_req,             \* the requests being handled
    rt_started,         \* requests received so far
    rt_commits,         \* history: the commits of generate_suggestions
    \* run_batch_benchmark_task
    bt_pc,
    queries_data,       \* number of queries handed to the task
    bt_k,               \* queries handled so far
    successful,
    failed,
    bt_outcomes         \* history: what happened to each query

benchVars == <<iterations, query_tables, pc, table_schemas, optimization_result,
               original_times, optimized_times, result, which, bpc, i, times,
               bqRaised, conns, log, db_rows, session_state>>

gemVars == <<gem_pc, gem_response, gem_result>>

ruleVars == <<re_pc, query_log, query_feature, execution_plan, suggestions,
              session_new, suggestion_rows>>

planVars == <<pp_pc, plan_input, plan_node, plan_analysis>>

featVars == <<fe_pc, fe_query, fe_features, fe_raised>>

catVars == <<cf_pc, tables_scanned, cf_k, indexed_count, checked, total_mb, counted,
             indexed_tables_pct, avg_table_size_mb, lookups>>

schemaVars == <<sx_pc, sx_order, sx_outcome, sx_schemas>>

routeVars == <<rt_feature, rt_plan, rt_rows, rt_req, rt_started, rt_commits>>

batchVars == <<bt_pc, queries_data, bt_k, successful, failed, bt_outcomes>>

restVars == <<schemaVars, routeVars, batchVars>>

vars == <<benchVars, gemVars, ruleVars, planVars, featVars, catVars, restVars>>

notBench == <<gemVars, ruleVars, planVars, featVars, catVars, restVars>>

notGemini == <<benchVars, ruleVars, planVars, featVars, catVars, restVars>>

notRules == <<benchVars, gemVars, planVars, featVars, catVars, restVars>>

notPlan == <<benchVars, gemVars, ruleVars, featVars, catVars, restVars>>

notFeatures == <<benchVars, gemVars, ruleVars, planVars, catVars, restVars>>

notCatalog == <<benchVars, gemVars, ruleVars, planVars, featVars, restVars>>

coreVars == <<benchVars, gemVars, ruleVars, planVars, featVars, catVars>>

notSchemas == <<coreVars, routeVars, batchVars>>

notRoutes == <<coreVars, schemaVars, batchVars>>

notBatch == <<coreVars, schemaVars, routeVars>>

\* ------------------------------------------------------------------------
\* Helpers: exact rationals
\* ------------------------------------------------------------------------
Abs(x) == IF x < 0 THEN -x ELSE x

RECURSIVE Gcd(_, _)
Gcd(a, b) == IF b = 0 THEN a ELSE Gcd(b, a % b)

\* the rational n/d in lowest terms, d > 0
Rat(n, d) ==
    LET g == Gcd(Abs(n), Abs(d))
        s == IF d < 0 THEN -1 ELSE 1
    IN  [n |-> (s * n) \div g, d |-> (s * d) \div g]

RatInt(k) == [n |-> k, d |-> 1]

RatSub(a, b) == Rat(a.n * b.d - b.n * a.d, a.d * b.d)

RatMul(a, b) == Rat(a.n * b.n, a.d * b.d)

RatDiv(a, b) == Rat(a.n * b.d, a.d * b.n)

RatGt(a, b) == a.n * b.d > b.n * a.d

RECURSIVE SumSeq(_)
SumSeq(s) == IF s = <<>> THEN 0 ELSE Head(s) + SumSeq(Tail(s))

\* all sequences over S of length at most n
SeqsUpTo(S, n) == UNION {[1..k -> S] : k \in 0..n}

\* ------------------------------------------------------------------------
\* gemini_optimizer.py
\* A response text is a sequence of tokens: braces, prose, and JSON members
\*   "oq"     "optimized_query": RewrittenQuery
\*   "ot"     "optimization_type": "INDEX"
\*   "cf"     "confidence": 0.85
\*   "cf_bad" "confidence": a value float() rejects
\* explanation and estimated_improvement are not read by the benchmark and
\* are left out of OptimizationResult.
\* ------------------------------------------------------------------------
MemberTokens == {"oq", "ot", "cf", "cf_bad"}

Tokens == {"{", "}", "text"} \cup MemberTokens

ProviderOutcomes ==
    {[raised |-> TRUE, text |-> <<>>]} \cup
    {[raised |-> FALSE, text |-> t] : t \in SeqsUpTo(Tokens, MaxRespLen)}

\* re.search(r'\{.*\}', text, re.DOTALL): leftmost "{" to the last "}";
\* <<>> when there is no match
RegexSearch(text) ==
    LET opens  == {k \in 1..Len(text) : text[k] = "{"}
        closes == {k \in 1..Len(text) : text[k] = "}"}
    IN  IF opens = {} \/ closes = {} THEN <<>>
        ELSE LET a == CHOOSE k \in opens : \A m \in opens : k <= m
                 b == CHOOSE k \in closes : \A m \in closes : k >= m
             IN  IF a < b THEN SubSeq(text, a, b) ELSE <<>>

\* json.loads succeeds on the matched text: one object of members
JsonLoadsOk(m) ==
    /\ Len(m) >= 2
    /\ m[1] = "{"
    /\ m[Len(m)] = "}"
    /\ \A k \in 2..(Len(m) - 1) : m[k] \in MemberTokens

\* result.get(key): the member present (the last one wins on a repeated key)
HasMember(m, tok) == \E k \in 1..Len(m) : m[k] = tok

LastConfidence(m) ==
    LET ks == {k \in 1..Len(m) : m[k] \in {"cf", "cf_bad"}}
    IN  IF ks = {} THEN "absent"
        ELSE m[CHOOSE k \in ks : \A j \in ks : k >= j]

\* variant: the parse fallback keeps the default confidence 0.5
ParseErrorResultDefaultConfidence(original_query) ==
    [original_query |-> original_query, optimized_query |-> original_query,
     optimization_type |-> "PARSE_ERROR", confidence |-> 50]

ParseErrorResult(original_query) ==
    [original_query |-> original_query, optimized_query |-> original_query,
     optimization_type |-> "PARSE_ERROR", confidence |-> 0]

FailedResult(original_query) ==
    [original_query |-> original_query, optimized_query |-> original_query,
     optimization_type |-> "FAILED", confidence |-> 0]

_parse_gemini_response(response_text, original_query) ==
    LET m == RegexSearch(response_text)
    IN  IF m = <<>> THEN ParseErrorResult(original_query)
        ELSE IF ~JsonLoadsOk(m) THEN ParseErrorResult(original_query)
        ELSE IF LastConfidence(m) = "cf_bad" THEN ParseErrorResult(original_query)
        ELSE [original_query |-> original_query,
              optimized_query |-> IF HasMember(m, "oq") THEN RewrittenQuery
                                  ELSE original_query,
              optimization_type |-> IF HasMember(m, "ot") THEN "INDEX"
                                    ELSE "UNKNOWN",
              confidence |-> IF LastConfidence(m) = "cf" THEN 85 ELSE 50]

optimize_query(outcome, query) ==
    IF outcome.raised THEN FailedResult(query)
    ELSE _parse_gemini_response(outcome.text, query)

\* ------------------------------------------------------------------------
\* benchmark_engine.py: pure parts
\* ------------------------------------------------------------------------
Columns(t) == <<"id", "name">>

\* the catalog's answer for one table: its columns, no columns, or an error
LookupOutcomes == {"cols", "empty", "fail"}

\* _extract_table_schemas: the loop over the tables in the order `order`,
\* stopped by the first lookup error; the except clause keeps what was filled
RECURSIVE ExtractLoop(_, _, _)
ExtractLoop(order, outcome, schemas) ==
    IF order = <<>> THEN schemas
    ELSE LET t == Head(order)
         IN  IF outcome[t] = "fail" THEN schemas
             ELSE IF outcome[t] = "cols"
                  THEN ExtractLoop(Tail(order), outcome,
                                   [x \in (DOMAIN schemas) \cup {t} |->
                                       IF x = t THEN Columns(t) ELSE schemas[x]])
                  ELSE ExtractLoop(Tail(order), outcome, schemas)

EmptyMap == [x \in {} |-> <<>>]

_extract_table_schemas(order, outcome) == ExtractLoop(order, outcome, EmptyMap)

\* the orders in which a set can be iterated
Orders(S) == {o \in [1..Cardinality(S) -> S] : \A t \in S : \E k \in DOMAIN o : o[k] = t}

\* variant: the fallback series is one entry short
SentinelSeriesShort(n) == [k \in 1..(n - 1) |-> SENTINEL]

\* variant: the fallback series holds zeros
SentinelSeriesZero(n) == [k \in 1..n |-> 0]

\* times = [10000.0] * iterations
SentinelSeries(n) == [k \in 1..n |-> SENTINEL]

\* variant: no outer except clause, the error leaves _benchmark_query
BenchmarkExceptReraise(n) == [times |-> <<>>, raised |-> TRUE]

\* the outer except clause of _benchmark_query (lines 169-171)
BenchmarkExcept(n) == [times |-> SentinelSeries(n), raised |-> FALSE]

\* variant: the failure handler restarts the list
IterationFailedRestart(ts) == <<SENTINEL>>

\* the inner except clause (lines 162-165)
IterationFailed(ts) == Append(ts, SENTINEL)

\* lines 155-157
IterationTimed(ts, d) == Append(ts, d)

\* statistics.mean of a non-empty list
Mean(ts) == Rat(SumSeq(ts), Len(ts))

\* line 89
ImprovementMs(original_avg, optimized_avg) == RatSub(original_avg, optimized_avg)

\* variant: the ratio is not scaled to a percentage
ImprovementPctUnscaled(improvement_ms, original_avg) ==
    IF RatGt(original_avg, RatInt(0))
    THEN RatDiv(improvement_ms, original_avg)
    ELSE RatInt(0)

\* line 90
ImprovementPct(improvement_ms, original_avg) ==
    IF RatGt(original_avg, RatInt(0))
    THEN RatMul(RatDiv(improvement_ms, original_avg), RatInt(100))
    ELSE RatInt(0)

\* lines 92-105
SuccessResult(opt, otimes, ptimes) ==
    LET original_avg   == Mean(otimes)
        optimized_avg  == Mean(ptimes)
        improvement_ms == ImprovementMs(original_avg, optimized_avg)
    IN  [query_id |-> QueryId,
         original_query |-> OriginalQuery,
         optimized_query |-> opt.optimized_query,
         original_times |-> otimes,
         optimized_times |-> ptimes,
         original_avg_ms |-> original_avg,
         optimized_avg_ms |-> optimized_avg,
         improvement_pct |-> ImprovementPct(improvement_ms, original_avg),
         improvement_ms |-> improvement_ms,
         success |-> TRUE,
         error_message |-> "None",
         confidence |-> opt.confidence,
         optimization_type |-> opt.optimization_type]

\* variant: the failure result carries empty series
FailureResultEmptySeries(e) ==
    [query_id |-> QueryId,
     original_query |-> OriginalQuery,
     optimized_query |-> OriginalQuery,
     original_times |-> <<>>,
     optimized_times |-> <<>>,
     original_avg_ms |-> RatInt(0),
     optimized_avg_ms |-> RatInt(0),
     improvement_pct |-> RatInt(0),
     improvement_ms |-> RatInt(0),
     success |-> FALSE,
     error_message |-> e,
     confidence |-> 0,
     optimization_type |-> "UNKNOWN"]

\* lines 113-127
FailureResult(e) ==
    [query_id |-> QueryId,
     original_query |-> OriginalQuery,
     optimized_query |-> OriginalQuery,
     original_times |-> <<0>>,
     optimized_times |-> <<0>>,
     original_avg_ms |-> RatInt(0),
     optimized_avg_ms |-> RatInt(0),
     improvement_pct |-> RatInt(0),
     improvement_ms |-> RatInt(0),
     success |-> FALSE,
     error_message |-> e,
     confidence |-> 0,
     optimization_type |-> "UNKNOWN"]

\* the columns of one row of performance_improvements (lines 249-261)
Row(r) ==
    [query_id |-> r.query_id,
     original_query |-> r.original_query,
     optimized_query |-> r.optimized_query,
     original_avg_ms |-> r.original_avg_ms,
     optimized_avg_ms |-> r.optimized_avg_ms,
     improvement_pct |-> r.improvement_pct,
     improvement_ms |-> r.improvement_ms,
     confidence |-> r.confidence,
     optimization_type |-> r.optimization_type,
     success |-> r.success,
     error_message |-> r.error_message]

Event(q, ev, d) == [q |-> q, ev |-> ev, d |-> d]

\* ------------------------------------------------------------------------
\* run_comprehensive_benchmark, one action per await
\* ------------------------------------------------------------------------
NoConns == [q \in {"orig", "opt"} |-> "none"]

InitBench ==
    /\ iterations \in 0..MaxIter
    /\ query_tables \in SUBSET Tables
    /\ pc = "schemas"
    /\ table_schemas = EmptyMap
    /\ optimization_result = <<>>
    /\ original_times = <<>>
    /\ optimized_times = <<>>
    /\ result = <<>>
    /\ which = "none"
    /\ bpc = "idle"
    /\ i = 0
    /\ times = <<>>
    /\ bqRaised = FALSE
    /\ conns = NoConns
    /\ log = <<>>
    /\ db_rows = <<>>
    /\ session_state = "idle"

IdleGem ==
    /\ gem_pc = "idle"
    /\ gem_response = [raised |-> TRUE, text |-> <<>>]
    /\ gem_result = <<>>

\* line 66
ExtractTableSchemas ==
    /\ pc = "schemas"
    /\ \E order \in Orders(query_tables), outcome \in [query_tables -> LookupOutcomes] :
           table_schemas' = _extract_table_schemas(order, outcome)
    /\ pc' = "optimize"
    /\ UNCHANGED <<iterations, query_tables, optimization_result, original_times,
                   optimized_times, result, which, bpc, i, times, bqRaised, conns,
                   log, db_rows, session_state>>
    /\ UNCHANGED notBench

\* lines 69-73
OptimizeQuery ==
    /\ pc = "optimize"
    /\ \E outcome \in ProviderOutcomes :
           optimization_result' = <<optimize_query(outcome, OriginalQuery)>>
    /\ pc' = "bench_orig"
    /\ UNCHANGED <<iterations, query_tables, table_schemas, original_times,
                   optimized_times, result, which, bpc, i, times, bqRaised, conns,
                   log, db_rows, session_state>>
    /\ UNCHANGED notBench

\* lines 140-143: the call starts, times = [], asyncpg.connect
BenchmarkConnect ==
    /\ pc \in {"bench_orig", "bench_opt"}
    /\ bpc = "idle"
    /\ LET q == IF pc = "bench_orig" THEN "orig" ELSE "opt"
       IN  /\ which' = q
           /\ i' = 0
           /\ \/ /\ conns' = [conns EXCEPT ![q] = "open"]
                 /\ times' = <<>>
                 /\ bqRaised' = FALSE
                 /\ bpc' = "warmup"
                 /\ log' = Append(log, Event(q, "connect_ok", 0))
              \/ /\ conns' = conns
                 /\ times' = BenchmarkExcept(iterations).times
                 /\ bqRaised' = BenchmarkExcept(iterations).raised
                 /\ bpc' = "ret"
                 /\ log' = Append(log, Event(q, "connect_fail", 0))
    /\ UNCHANGED <<iterations, query_tables, pc, table_schemas, optimization_result,
                   original_times, optimized_times, result, db_rows, session_state>>
    /\ UNCHANGED notBench

\* line 146: conn.execute("SELECT 1")
BenchmarkWarmup ==
    /\ bpc = "warmup"
    /\ \/ /\ bpc' = "loop"
          /\ log' = Append(log, Event(which, "warmup_ok", 0))
          /\ UNCHANGED <<times, bqRaised>>
       \/ /\ times' = BenchmarkExcept(iterations).times
          /\ bqRaised' = BenchmarkExcept(iterations).raised
          /\ bpc' = "ret"
          /\ log' = Append(log, Event(which, "warmup_fail", 0))
    /\ UNCHANGED <<iterations, query_tables, pc, table_schemas, optimization_result,
                   original_times, optimized_times, result, which, i, conns,
                   db_rows, session_state>>
    /\ UNCHANGED notBench

\* lines 148-165: one pass of the loop body
BenchmarkIteration ==
    /\ bpc = "loop"
    /\ i < iterations
    /\ \/ \E d \in Durations :
              /\ times' = IterationTimed(times, d)
              /\ log' = log \o <<Event(which, "fetch_ok", d), Event(which, "sleep", 0)>>
       \/ /\ times' = IterationFailed(times)
          /\ log' = Append(log, Event(which, "fetch_fail", 0))
    /\ i' = i + 1
    /\ UNCHANGED <<iterations, query_tables, pc, table_schemas, optimization_result,
                   original_times, optimized_times, result, which, bpc, bqRaised,
                   conns, db_rows, session_state>>
    /\ UNCHANGED notBench

\* line 167: conn.close() after the loop.  A close that fails has aborted
\* the connection (asyncpg aborts before re-raising); the except clause
\* of line 169 then replaces the timings.
BenchmarkClose ==
    /\ bpc = "loop"
    /\ i >= iterations
    /\ \/ /\ conns' = [conns EXCEPT ![which] = "closed"]
          /\ log' = Append(log, Event(which, "close_ok", 0))
          /\ UNCHANGED <<times, bqRaised>>
       \/ /\ conns' = [conns EXCEPT ![which] = "aborted"]
          /\ times' = BenchmarkExcept(iterations).times
          /\ bqRaised' = BenchmarkExcept(iterations).raised
          /\ log' = Append(log, Event(which, "close_fail", 0))
    /\ bpc' = "ret"
    /\ UNCHANGED <<iterations, query_tables, pc, table_schemas, optimization_result,
                   original_times, optimized_times, result, which, i,
                   db_rows, session_state>>
    /\ UNCHANGED notBench

\* line 173 and the assignment at the call site (lines 76, 81); an exception
\* out of the call lands in the except clause of lines 113-127
BenchmarkReturn ==
    /\ bpc = "ret"
    /\ bpc' = "idle"
    /\ IF bqRaised
       THEN /\ result' = <<FailureResult("benchmark raised")>>
            /\ pc' = "done"
            /\ UNCHANGED <<original_times, optimized_times>>
       ELSE /\ IF which = "orig"
               THEN /\ original_times' = times
                    /\ pc' = "bench_opt"
                    /\ UNCHANGED optimized_times
               ELSE /\ optimized_times' = times
                    /\ pc' = "calc"
                    /\ UNCHANGED original_times
            /\ UNCHANGED result
    /\ UNCHANGED <<iterations, query_tables, table_schemas, optimization_result,
                   which, i, times, bqRaised, conns, log, db_rows, session_state>>
    /\ UNCHANGED notBench

\* lines 86-105, and the except clause (lines 113-127) when statistics.mean
\* raises StatisticsError on an empty series
ComputeMetrics ==
    /\ pc = "calc"
    /\ IF original_times = <<>> \/ optimized_times = <<>>
       THEN /\ result' = <<FailureResult("mean requires at least one data point")>>
            /\ pc' = "done"
       ELSE /\ result' = <<SuccessResult(optimization_result[1], original_times,
                                         optimized_times)>>
            /\ pc' = "store"
    /\ UNCHANGED <<iterations, query_tables, table_schemas, optimization_result,
                   original_times, optimized_times, which, bpc, i, times, bqRaised,
                   conns, log, db_rows, session_state>>
    /\ UNCHANGED notBench

WriteFailedPropagates(r) == FailureResult("write failed")

\* the except clause of _store_benchmark_result (lines 266-268): the error is
\* logged and not raised again, so line 111 returns the result as computed
WriteFailed(r) == r

\* lines 108-111 with _store_benchmark_result (lines 210-268): CREATE TABLE,
\* INSERT and commit, or the rollback of the except clause when one of them
\* fails (session.rollback() itself is taken to succeed)
StoreBenchmarkResult ==
    /\ pc = "store"
    /\ \E failed_at \in {"none", "create", "insert", "commit"} :
           IF failed_at = "none"
           THEN /\ db_rows' = Append(db_rows, Row(result[1]))
                /\ session_state' = "committed"
                /\ result' = result
           ELSE /\ db_rows' = db_rows
                /\ session_state' = "rolled_back"
                /\ result' = <<WriteFailed(result[1])>>
    /\ pc' = "done"
    /\ UNCHANGED <<iterations, query_tables, table_schemas, optimization_result,
                   original_times, optimized_times, which, bpc, i, times,
                   bqRaised, conns, log>>
    /\ UNCHANGED notBench

IdleBench ==
    /\ iterations = 0
    /\ query_tables = {}
    /\ pc = "idle"
    /\ table_schemas = EmptyMap
    /\ optimization_result = <<>>
    /\ original_times = <<>>
    /\ optimized_times = <<>>
    /\ result = <<>>
    /\ which = "none"
    /\ bpc = "idle"
    /\ i = 0
    /\ times = <<>>
    /\ bqRaised = FALSE
    /\ conns = NoConns
    /\ log = <<>>
    /\ db_rows = <<>>
    /\ session_state = "idle"

NextBench ==
    \/ ExtractTableSchemas
    \/ OptimizeQuery
    \/ BenchmarkConnect
    \/ BenchmarkWarmup
    \/ BenchmarkIteration
    \/ BenchmarkClose
    \/ BenchmarkReturn
    \/ ComputeMetrics
    \/ StoreBenchmarkResult

IdleRules ==
    /\ re_pc = "idle"
    /\ query_log = [id |-> QueryId, query_text |-> OriginalQuery,
                    mean_exec_time |-> 0, calls |-> 0, total_exec_time |-> 0]
    /\ query_feature = <<>>
    /\ execution_plan = <<>>
    /\ suggestions = <<>>
    /\ session_new = <<>>
    /\ suggestion_rows = <<>>

IdlePlan ==
    /\ pp_pc = "idle"
    /\ plan_input = <<>>
    /\ plan_node = <<>>
    /\ plan_analysis = <<>>

IdleFeatures ==
    /\ fe_pc = "idle"
    /\ fe_query = <<>>
    /\ fe_features = <<>>
    /\ fe_raised = FALSE

IdleCatalog ==
    /\ cf_pc = "idle"
    /\ tables_scanned = <<>>
    /\ cf_k = 0
    /\ indexed_count = 0
    /\ checked = 0
    /\ total_mb = 0
    /\ counted = 0
    /\ indexed_tables_pct = <<>>
    /\ avg_table_size_mb = <<>>
    /\ lookups = <<>>

IdleSchemas ==
    /\ sx_pc = "idle"
    /\ sx_order = <<>>
    /\ sx_outcome = EmptyMap
    /\ sx_schemas = <<>>

IdleRoutes ==
    /\ rt_feature = <<>>
    /\ rt_plan = <<>>
    /\ rt_rows = <<>>
    /\ rt_req = <<>>
    /\ rt_started = 0
    /\ rt_commits = <<>>

IdleBatch ==
    /\ bt_pc = "idle"
    /\ queries_data = 0
    /\ bt_k = 0
    /\ successful = 0
    /\ failed = 0
    /\ bt_outcomes = <<>>

IdleRest == IdleSchemas /\ IdleRoutes /\ IdleBatch

IdleOthers == IdlePlan /\ IdleFeatures /\ IdleCatalog /\ IdleRest

Init == InitBench /\ IdleGem /\ IdleRules /\ IdleOthers

Next == NextBench

Spec == Init /\ [][Next]_vars

\* ------------------------------------------------------------------------
\* GeminiQueryOptimizer.optimize_query applied to every provider outcome
\* ------------------------------------------------------------------------
InitGemini ==
    /\ gem_pc = "start"
    /\ gem_response \in ProviderOutcomes
    /\ gem_result = <<>>

\* gemini_optimizer.py lines 49-67
GeminiOptimize ==
    /\ gem_pc = "start"
    /\ gem_result' = <<optimize_query(gem_response, OriginalQuery)>>
    /\ gem_pc' = "done"
    /\ UNCHANGED gem_response
    /\ UNCHANGED notGemini

InitGem == IdleBench /\ InitGemini /\ IdleRules /\ IdleOthers

NextGem == GeminiOptimize

SpecGemini == InitGem /\ [][NextGem]_vars

\* ------------------------------------------------------------------------
\* Properties of _benchmark_query and run_comprehensive_benchmark
\* ------------------------------------------------------------------------
Calls == {"orig", "opt"}

CallLog(q) == LET OfCall(e) == e.q = q IN SelectSeq(log, OfCall)

Fetches(q) == LET IsFetch(e) == e.q = q /\ e.ev \in {"fetch_ok", "fetch_fail"}
              IN  SelectSeq(log, IsFetch)

Happened(q, ev) == \E k \in 1..Len(log) : log[k].q = q /\ log[k].ev = ev

\* the call for q has its series: it is about to return or has returned
HasSeries(q) ==
    \/ which = q /\ bpc = "ret"
    \/ q = "orig" /\ pc \in {"bench_opt", "calc", "store"}
    \/ q = "opt" /\ pc \in {"calc", "store"}

\* the series of the call for q, while running and after it returned
SeriesOf(q) ==
    IF which = q /\ bpc # "idle" THEN times
    ELSE IF q = "orig" THEN original_times ELSE optimized_times

AllSentinel(ts) == \A k \in 1..Len(ts) : ts[k] = SENTINEL

\* C1: whatever fails (connect, warm-up, any iterations, close),
\* _benchmark_query returns exactly `iterations` timings and raises nothing.
C1_ExactlyIterationsTimings ==
    /\ bpc = "ret" => ~bqRaised
    /\ \A q \in Calls : HasSeries(q) => Len(SeriesOf(q)) = iterations

C1_Witness ==
    /\ bpc = "ret"
    /\ iterations >= 2
    /\ Happened(which, "fetch_fail")
    /\ Happened(which, "fetch_ok")
    /\ Happened(which, "close_fail")

\* C2: a success=false result that run_comprehensive_benchmark returns has
\* also been written to performance_improvements.
C2_FailureResultPersisted ==
    (pc = "done" /\ ~result[1].success) =>
        \E k \in 1..Len(db_rows) : db_rows[k] = Row(result[1])

\* C3: when _benchmark_query returns, the connection it opened is not open.
C3_ConnectionClosedOnReturn ==
    bpc = "ret" => conns[which] # "open"

\* C4: with the connection established, a failed iteration contributes one
\* sentinel at its own position, the other positions hold the measured
\* durations, and all `iterations` iterations are executed before the close.
C4_IterationFailureIsLocal ==
    \A q \in Calls :
        (Happened(q, "warmup_ok") /\ ~Happened(q, "close_fail")) =>
            LET fe == Fetches(q)
                ts == SeriesOf(q)
            IN  /\ Len(ts) = Len(fe)
                /\ \A k \in 1..Len(fe) :
                       ts[k] = IF fe[k].ev = "fetch_fail" THEN SENTINEL ELSE fe[k].d
                /\ which = q /\ bpc = "loop" => Len(fe) = i
                /\ Happened(q, "close_ok") => Len(fe) = iterations

C4_Witness ==
    /\ which = "orig"
    /\ bpc = "ret"
    /\ Happened("orig", "close_ok")
    /\ Len(times) >= 2
    /\ times[1] = SENTINEL
    /\ times[2] = 50

\* C5: when connect fails, the series is `iterations` sentinels and the
\* call executed neither the warm-up nor any query.
C5_ConnectFailureAllSentinel ==
    \A q \in Calls :
        Happened(q, "connect_fail") =>
            /\ HasSeries(q) => (Len(SeriesOf(q)) = iterations /\ AllSentinel(SeriesOf(q)))
            /\ which = q => bpc \in {"ret", "idle"}
            /\ \A k \in 1..Len(log) :
                   log[k].q = q => log[k].ev = "connect_fail"

C5_Witness ==
    /\ which = "opt"
    /\ bpc = "ret"
    /\ iterations >= 2
    /\ Happened("opt", "connect_fail")
    /\ Happened("orig", "fetch_ok")

\* C6: with iterations >= 1, a connection failure in either timing leaves
\* success = true, gives the affected query sentinel timings, and the result
\* is handed to _store_benchmark_result (the row is there once the write
\* commits).
C6_ConnectFailureKeepsSuccess ==
    (pc = "done" /\ iterations >= 1 /\ \E q \in Calls : Happened(q, "connect_fail")) =>
        /\ result[1].success
        /\ Happened("orig", "connect_fail") =>
               (Len(result[1].original_times) = iterations
                /\ AllSentinel(result[1].original_times))
        /\ Happened("opt", "connect_fail") =>
               (Len(result[1].optimized_times) = iterations
                /\ AllSentinel(result[1].optimized_times))
        /\ session_state \in {"committed", "rolled_back"}
        /\ session_state = "committed" => db_rows = <<Row(result[1])>>

C6_Witness ==
    /\ pc = "done"
    /\ iterations >= 1
    /\ Happened("opt", "connect_fail")
    /\ Happened("orig", "close_ok")
    /\ result[1].success
    /\ db_rows = <<Row(result[1])>>

\* C8: at most one benchmark connection is open at any time; the connection
\* of the original query is no longer open when the optimized one is opened.
C8_AtMostOneOpenConnection ==
    Cardinality({q \in Calls : conns[q] = "open"}) <= 1

\* C9: improvement_ms = mean(original) - mean(optimized) and improvement_pct
\* = improvement_ms / mean(original) * 100, or 0 when mean(original) = 0.
C9_ImprovementFormulas ==
    (pc \in {"store", "done"} /\ result[1].success) =>
        LET r  == result[1]
            So == SumSeq(r.original_times)
            Sp == SumSeq(r.optimized_times)
            no == Len(r.original_times)
            np == Len(r.optimized_times)
        IN  /\ no > 0 /\ np > 0
            /\ r.improvement_ms.n * (no * np) = r.improvement_ms.d * (So * np - Sp * no)
            /\ So = 0 => r.improvement_pct = RatInt(0)
            /\ So > 0 => r.improvement_pct = Rat(100 * (So * np - Sp * no), So * np)

C9_Witness ==
    /\ pc = "done"
    /\ result[1].success
    /\ SumSeq(result[1].original_times) = 0
    /\ SumSeq(result[1].optimized_times) > 0
    /\ result[1].improvement_pct = RatInt(0)
    /\ result[1].improvement_ms.n < 0

\* ------------------------------------------------------------------------
\* Properties of optimize_query
\* ------------------------------------------------------------------------
IsJsonObject(m) ==
    /\ Len(m) >= 2
    /\ m[1] = "{"
    /\ m[Len(m)] = "}"
    /\ \A k \in 2..(Len(m) - 1) : m[k] \notin {"{", "}", "text"}

\* no part of the response is a JSON object
NoParseableJson(text) ==
    ~ \E a, b \in 1..Len(text) : a < b /\ IsJsonObject(SubSeq(text, a, b))

IsFallback(r, type) ==
    /\ r.optimized_query = OriginalQuery
    /\ r.optimization_type = type
    /\ r.confidence = 0

\* C7: after any provider failure (the call raises, or the response holds
\* no parseable JSON) the result is the original query, "FAILED", 0.0.
C7_FailureMeansFailed ==
    (gem_pc = "done" /\ (gem_response.raised \/ NoParseableJson(gem_response.text))) =>
        IsFallback(gem_result[1], "FAILED")

\* C7 as amended: a raising provider call gives the original query, "FAILED",
\* 0.0; a response with no parseable JSON gives the original query,
\* "PARSE_ERROR", 0.0.
C7_FailureFallback ==
    gem_pc = "done" =>
        /\ gem_response.raised => IsFallback(gem_result[1], "FAILED")
        /\ (~gem_response.raised /\ NoParseableJson(gem_response.text)) =>
               IsFallback(gem_result[1], "PARSE_ERROR")

C7_Witness ==
    /\ gem_pc = "done"
    /\ ~gem_response.raised
    /\ Len(gem_response.text) >= 2
    /\ gem_response.text[1] = "{"
    /\ NoParseableJson(gem_response.text)
    /\ IsFallback(gem_result[1], "PARSE_ERROR")

\* ------------------------------------------------------------------------
\* rule_engine.py
\* An optional value is <<>> (None) or <<v>>.  A plan JSON node is a record
\* [kind, node_type, relation, plans]; the message of a suggestion is the name of
\* the rule that made it.
\* ------------------------------------------------------------------------
IsNone(o) == o = <<>>

\* Python truth of an optional number: None and 0 are false
Truthy(o) == o # <<>> /\ o[1] # 0

QueryTexts == {"select * from users", "UPDATE users SET name = 'x'"}

\* "SELECT" in query_text.upper()
UpperHasSelect(text) == text \in {"select * from users"}

PlanLeaf(nt, rel) ==
    [kind |-> "object", node_type |-> nt, relation |-> rel, plans |-> <<>>]

PlanJsons ==
    {<<>>,
     <<PlanLeaf("Seq Scan", "users")>>,
     <<PlanLeaf("Index Scan", "users")>>,
     <<PlanLeaf("Index Scan", "Seq Scan audit")>>,
     <<[kind |-> "object", node_type |-> "Hash Join", relation |-> "",
        plans |-> <<PlanLeaf("Seq Scan", "users"), PlanLeaf("Index Scan", "orders")>>]>>}

\* the string values that str(plan_json) prints
RECURSIVE PlanStrings(_)
PlanStrings(node) ==
    {node.node_type, node.relation}
        \cup UNION {PlanStrings(node.plans[k]) : k \in 1..Len(node.plans)}

\* "Seq Scan" in s
HasSeqScanText(s) == s \in {"Seq Scan", "Parallel Seq Scan", "Seq Scan audit"}

\* execution_plan.plan_json and "Seq Scan" in str(execution_plan.plan_json)
PlanJsonMentionsSeqScan(plan_json) ==
    /\ plan_json # <<>>
    /\ \E t \in PlanStrings(plan_json[1]) : HasSeqScanText(t)

Suggestion(type, message, confidence, improvement, cost) ==
    [query_id |-> "None",
     suggestion_type |-> type,
     message |-> message,
     confidence |-> confidence,
     source |-> "RULE_ENGINE",
     estimated_improvement_ms |-> improvement,
     implementation_cost |-> cost]

If(cond, one) == IF cond THEN <<one>> ELSE <<>>

_apply_query_structure_rules(ql, qf) ==
    IF IsNone(qf) THEN <<>>
    ELSE LET f == qf[1]
         IN  If(f.has_select_star,
                Suggestion("QUERY_REWRITE", "select_star", 80, RatInt(50), "LOW"))
             \o If(~f.has_where_clause /\ UpperHasSelect(ql.query_text),
                   Suggestion("QUERY_REWRITE", "missing_where", 60, RatInt(100), "LOW"))
             \o If(f.num_joins > 3,
                   Suggestion("QUERY_REWRITE", "many_joins", 70, RatInt(200), "MEDIUM"))
             \o If(f.num_subqueries > 0,
                   Suggestion("QUERY_REWRITE", "subqueries", 60, RatInt(150), "MEDIUM"))

_apply_performance_rules(ql) ==
    If(ql.mean_exec_time > slow_query_threshold_ms,
       Suggestion("PERFORMANCE", "slow_query", 90, Rat(ql.mean_exec_time, 2), "HIGH"))
    \o If(ql.calls > 1000,
          Suggestion("CACHING", "high_call_frequency", 80, RatInt(100), "MEDIUM"))
    \o If(ql.total_exec_time > 10000,
          Suggestion("PERFORMANCE", "high_total_time", 90,
                     Rat(3 * ql.total_exec_time, 10), "HIGH"))

_apply_plan_based_rules(ep) ==
    IF IsNone(ep) THEN <<>>
    ELSE LET e == ep[1]
         IN  If(PlanJsonMentionsSeqScan(e.plan_json),
                Suggestion("INDEX", "sequential_scan", 80, RatInt(300), "MEDIUM"))
             \o If(Truthy(e.total_cost) /\ e.total_cost[1] > 1000,
                   Suggestion("OPTIMIZATION", "high_cost", 70, RatInt(200), "HIGH"))
             \o If(Truthy(e.plan_depth) /\ e.plan_depth[1] > 5,
                   Suggestion("QUERY_REWRITE", "deep_plan", 60, RatInt(150), "MEDIUM"))

_apply_index_rules(qf) ==
    If(~IsNone(qf) /\ Truthy(qf[1].indexed_tables_pct) /\ qf[1].indexed_tables_pct[1] < 50,
       Suggestion("INDEX", "low_indexed_pct", 70, RatInt(250), "MEDIUM"))
    \o If(~IsNone(qf) /\ qf[1].has_where_clause,
          Suggestion("INDEX", "where_clause_index", 60, RatInt(100), "LOW"))

\* variant: the cap keeps one entry too many
LimitSuggestionsOffByOne(ss) ==
    IF Len(ss) > max_suggestions_per_query
    THEN SubSeq(ss, 1, max_suggestions_per_query + 1)
    ELSE ss

\* lines 43-44
LimitSuggestions(ss) ==
    IF Len(ss) > max_suggestions_per_query
    THEN SubSeq(ss, 1, max_suggestions_per_query)
    ELSE ss

\* lines 34-44
GeneratedSuggestions(ql, qf, ep) ==
    LimitSuggestions(_apply_query_structure_rules(ql, qf)
                     \o _apply_performance_rules(ql)
                     \o _apply_plan_based_rules(ep)
                     \o _apply_index_rules(qf))

\* variant: the objects are added without the query's id
BindToQueryUnbound(ss, ql) == ss

\* lines 47-49: suggestion.query_id = query_log.id
BindToQuery(ss, ql) == [k \in 1..Len(ss) |-> [ss[k] EXCEPT !.query_id = ql.id]]

QueryLogs ==
    [id : {QueryId}, query_text : QueryTexts, mean_exec_time : {1000, 1001},
     calls : {1000, 1001}, total_exec_time : {10000, 10001}]

QueryFeatures ==
    {<<>>} \cup
    {<<f>> : f \in [has_select_star : BOOLEAN, has_where_clause : BOOLEAN,
                    num_joins : {3, 4}, num_subqueries : {0, 1},
                    indexed_tables_pct : {<<>>, <<0>>, <<25>>, <<50>>}]}

ExecutionPlans ==
    {<<>>} \cup
    {<<e>> : e \in [plan_json : PlanJsons, total_cost : {<<>>, <<1000>>, <<1001>>},
                    plan_depth : {<<>>, <<5>>, <<6>>}]}

InitRuleEngine ==
    /\ re_pc = "start"
    /\ query_log \in QueryLogs
    /\ query_feature \in QueryFeatures
    /\ execution_plan \in ExecutionPlans
    /\ suggestions = <<>>
    /\ session_new = <<>>
    /\ suggestion_rows = <<>>

\* generate_suggestions (lines 34-54); session.commit() either writes the
\* added objects or raises, and the error leaves the function
GenerateSuggestions ==
    /\ re_pc = "start"
    /\ LET kept == BindToQuery(GeneratedSuggestions(query_log, query_feature,
                                                    execution_plan), query_log)
       IN  /\ session_new' = kept
           /\ \/ /\ suggestion_rows' = suggestion_rows \o kept
                 /\ suggestions' = kept
                 /\ re_pc' = "returned"
              \/ /\ re_pc' = "raised"
                 /\ UNCHANGED <<suggestion_rows, suggestions>>
    /\ UNCHANGED <<query_log, query_feature, execution_plan>>
    /\ UNCHANGED notRules

InitRules == IdleBench /\ IdleGem /\ InitRuleEngine /\ IdleOthers

NextRules == GenerateSuggestions

SpecRules == InitRules /\ [][NextRules]_vars

\* ------------------------------------------------------------------------
\* Properties of generate_suggestions
\* ------------------------------------------------------------------------
\* the rules in the order rule_engine.py declares them
RuleOrder ==
    <<"select_star", "missing_where", "many_joins", "subqueries",
      "slow_query", "high_call_frequency", "high_total_time",
      "sequential_scan", "high_cost", "deep_plan",
      "low_indexed_pct", "where_clause_index">>

RulePosition(message) == CHOOSE k \in 1..Len(RuleOrder) : RuleOrder[k] = message

AllRuleOutputs ==
    _apply_query_structure_rules(query_log, query_feature)
    \o _apply_performance_rules(query_log)
    \o _apply_plan_based_rules(execution_plan)
    \o _apply_index_rules(query_feature)

\* C10: the returned list has at most max_suggestions_per_query entries and
\* is the first N outputs of structure, performance, plan and index rules,
\* in rule-declaration order.
C10_CappedPrefixInRuleOrder ==
    re_pc = "returned" =>
        LET all == AllRuleOutputs
            n   == IF Len(all) < max_suggestions_per_query THEN Len(all)
                   ELSE max_suggestions_per_query
        IN  /\ Len(suggestions) <= max_suggestions_per_query
            /\ Len(suggestions) = n
            /\ \A k \in 1..n :
                   suggestions[k] = [all[k] EXCEPT !.query_id = query_log.id]
            /\ \A j, k \in 1..Len(suggestions) :
                   j < k => RulePosition(suggestions[j].message)
                              < RulePosition(suggestions[k].message)

C10_Witness ==
    /\ re_pc = "returned"
    /\ Len(AllRuleOutputs) > max_suggestions_per_query
    /\ Len(suggestions) = max_suggestions_per_query
    /\ suggestions[1].message = "select_star"
    /\ suggestions[max_suggestions_per_query].message = "deep_plan"

\* C11: every suggestion the rules generated is added to the session and
\* persisted with the query's id; what is added is what the rules generated.
C11_AllGeneratedPersisted ==
    re_pc \in {"returned", "raised"} =>
        /\ session_new = [k \in 1..Len(AllRuleOutputs) |->
                             [AllRuleOutputs[k] EXCEPT !.query_id = query_log.id]]
        /\ re_pc = "returned" => suggestion_rows = session_new

\* C11 as amended: the suggestions kept by the cap (the first
\* max_suggestions_per_query rule outputs) are added to the session with the
\* query's id, and are the rows written when the commit succeeds; outputs
\* beyond the cap are neither added nor persisted.
C11_RetainedPersisted ==
    re_pc \in {"returned", "raised"} =>
        LET all == AllRuleOutputs
            n   == IF Len(all) < max_suggestions_per_query THEN Len(all)
                   ELSE max_suggestions_per_query
        IN  /\ Len(session_new) = n
            /\ \A k \in 1..n :
                   /\ session_new[k].query_id = query_log.id
                   /\ session_new[k].message = all[k].message
                   /\ [session_new[k] EXCEPT !.query_id = "None"] = all[k]
            /\ re_pc = "returned" =>
                   (suggestion_rows = session_new /\ suggestions = session_new)
            /\ re_pc = "raised" => suggestion_rows = <<>>

C11_Witness ==
    /\ re_pc = "returned"
    /\ Len(AllRuleOutputs) = max_suggestions_per_query + 1
    /\ Len(suggestion_rows) = max_suggestions_per_query
    /\ \A k \in 1..Len(suggestion_rows) : suggestion_rows[k].query_id = QueryId

\* C12: a feature record with indexed_tables_pct below 50 (0.0 included)
\* makes the index rules emit the INDEX suggestion 0.7 / 250ms / MEDIUM.
C12_LowIndexedPctSuggested ==
    (re_pc \in {"returned", "raised"}
     /\ query_feature # <<>>
     /\ query_feature[1].indexed_tables_pct # <<>>
     /\ query_feature[1].indexed_tables_pct[1] < 50) =>
        \E k \in 1..Len(_apply_index_rules(query_feature)) :
            LET sg == _apply_index_rules(query_feature)[k]
            IN  /\ sg.suggestion_type = "INDEX"
                /\ sg.message = "low_indexed_pct"
                /\ sg.confidence = 70
                /\ sg.estimated_improvement_ms = RatInt(250)
                /\ sg.implementation_cost = "MEDIUM"

(***************************************************************************)
(* PlanParser (src/app/services/plan_parser.py).  A JSON value is a record *)
(* [kind, node_type, relation, plans]: kind is "object", "string" or       *)
(* "array"; an object carries its "Node Type", "Relation Name" and "Plans" *)
(* entries, with "" standing for an absent key and <<>> for an absent or   *)
(* empty "Plans" list; an array carries its items in plans.  The cost and  *)
(* row entries are copied into the node without being looked at by the     *)
(* analysis of the tree shape and are left out.                            *)
(***************************************************************************)
MaxPlanNodes == 4

MaxListNodes == 2

JsonObject(nt, rel, plans) ==
    [kind |-> "object", node_type |-> nt, relation |-> rel, plans |-> plans]

JsonString == [kind |-> "string", node_type |-> "", relation |-> "", plans |-> <<>>]

JsonArray(items) ==
    [kind |-> "array", node_type |-> "", relation |-> "", plans |-> items]

\* the "Node Type" / "Relation Name" pairs of the objects explored
NodeShapes ==
    {<<"Seq Scan", "users">>, <<"Parallel Seq Scan", "orders">>,
     <<"Index Scan", "Seq Scan audit">>, <<"Index Only Scan", "users">>,
     <<"Hash Join", "">>, <<"", "">>}

\* what a position of the explored JSON trees holds: an object of one of
\* the shapes, or a string
NodeLabels == NodeShapes \cup {<<"string">>}

\* the shapes of the ordered trees of n nodes, numbered in preorder:
\* parent[k] is the number of the parent of node k, 0 for the root
ParentArrays(n) ==
    {parent \in [1..n -> 0..(n - 1)] :
        \A k \in 1..n : IF k = 1 THEN parent[k] = 0
                         ELSE parent[k] \in 1..(k - 1)}

RECURSIVE JsonAt(_, _, _)
RECURSIVE JsonChildren(_, _, _, _)
\* the JSON value at position k; a string has no "Plans"
JsonAt(parent, label, k) ==
    IF label[k] = <<"string">> THEN JsonString
    ELSE JsonObject(label[k][1], label[k][2], JsonChildren(parent, label, k, k + 1))

JsonChildren(parent, label, k, j) ==
    IF j > Len(label) THEN <<>>
    ELSE (IF parent[j] = k THEN <<JsonAt(parent, label, j)>> ELSE <<>>)
             \o JsonChildren(parent, label, k, j + 1)

\* plan_json holds a value, bare or as the first item of the list EXPLAIN
\* (FORMAT JSON) returns, or the empty list
PlanForms == {"bare", "list", "list of two", "empty list"}

PlanInput(parent, label, form) ==
    LET v == JsonAt(parent, label, 1)
    IN  CASE form = "bare" -> v
          [] form = "list" -> JsonArray(<<v>>)
          [] form = "list of two" -> JsonArray(<<v, JsonString>>)
          [] form = "empty list" -> JsonArray(<<>>)

\* "Scan" in node_type
HasScanText(s) ==
    s \in {"Seq Scan", "Parallel Seq Scan", "Index Scan", "Index Only Scan"}

\* "Join" in node_type
HasJoinText(s) == s \in {"Hash Join"}

\* "Index Scan" in s
HasIndexScanText(s) == s \in {"Index Scan"}

PlanNode(node_type, scan_type, join_type, table_name, children) ==
    [node_type |-> node_type, scan_type |-> scan_type, join_type |-> join_type,
     table_name |-> table_name, children |-> children]

ParseRaised == [raised |-> TRUE, node |-> <<>>]

RECURSIVE _parse_node(_)
RECURSIVE ParseChildrenSkipBad(_)
RECURSIVE ParseChildren(_)
ParseChildrenSkipBad(plans) ==
    IF plans = <<>> THEN [raised |-> FALSE, nodes |-> <<>>]
    ELSE LET first == _parse_node(plans[1])
             rest  == ParseChildrenSkipBad(Tail(plans))
         IN  IF first.raised THEN rest
             ELSE [raised |-> FALSE, nodes |-> first.node \o rest.nodes]

\* the loop over node_data["Plans"] (lines 89-92): the first child that
\* fails to parse ends the loop with its exception
ParseChildren(plans) ==
    IF plans = <<>> THEN [raised |-> FALSE, nodes |-> <<>>]
    ELSE LET first == _parse_node(plans[1])
         IN  IF first.raised THEN [raised |-> TRUE, nodes |-> <<>>]
             ELSE LET rest == ParseChildren(Tail(plans))
                  IN  IF rest.raised THEN rest
                      ELSE [raised |-> FALSE, nodes |-> first.node \o rest.nodes]

\* _parse_node (lines 50-94): node_data.get fails on anything but a dict
_parse_node(node_data) ==
    IF node_data.kind # "object" THEN ParseRaised
    ELSE LET node_type == IF node_data.node_type = "" THEN "Unknown"
                          ELSE node_data.node_type
             scan_type == IF HasScanText(node_type) THEN <<node_type>> ELSE <<>>
             table_name == IF HasScanText(node_type) /\ node_data.relation # ""
                           THEN <<node_data.relation>> ELSE <<>>
             join_type == IF HasJoinText(node_type) THEN <<node_type>> ELSE <<>>
             children == ParseChildren(node_data.plans)
         IN  IF children.raised THEN ParseRaised
             ELSE [raised |-> FALSE,
                   node |-> <<PlanNode(node_type, scan_type, join_type, table_name,
                                       children.nodes)>>]

\* parse_plan_json (lines 30-48): plan_json[0] of an empty list raises, and
\* every exception is logged and raised again
parse_plan_json(plan_json) ==
    IF plan_json.kind = "array"
    THEN IF plan_json.plans = <<>> THEN ParseRaised
         ELSE _parse_node(plan_json.plans[1])
    ELSE _parse_node(plan_json)

MaxOf(S) == CHOOSE m \in S : \A x \in S : x <= m

RECURSIVE _calculate_depth_last_child(_, _)
RECURSIVE _calculate_depth(_, _)
_calculate_depth_last_child(node, current_depth) ==
    IF node.children = <<>> THEN current_depth
    ELSE _calculate_depth_last_child(node.children[Len(node.children)],
                                     current_depth + 1)

_calculate_depth(node, current_depth) ==
    IF node.children = <<>> THEN current_depth
    ELSE MaxOf({current_depth}
                 \cup {_calculate_depth(node.children[k], current_depth + 1) :
                          k \in 1..Len(node.children)})

RECURSIVE _extract_scan_types(_)
_extract_scan_types(node) ==
    {node.scan_type[k] : k \in 1..Len(node.scan_type)}
        \cup UNION {_extract_scan_types(node.children[k]) : k \in 1..Len(node.children)}

RECURSIVE _extract_join_types(_)
_extract_join_types(node) ==
    {node.join_type[k] : k \in 1..Len(node.join_type)}
        \cup UNION {_extract_join_types(node.children[k]) : k \in 1..Len(node.children)}


RECURSIVE _has_sequential_scan(_)
_has_sequential_scan_root_only(node) ==
    node.scan_type # <<>> /\ HasSeqScanText(node.scan_type[1])

_has_sequential_scan(node) ==
    \/ node.scan_type # <<>> /\ HasSeqScanText(node.scan_type[1])
    \/ \E k \in 1..Len(node.children) : _has_sequential_scan(node.children[k])

RECURSIVE _has_index_scan(_)
_has_index_scan(node) ==
    \/ node.scan_type # <<>> /\ HasIndexScanText(node.scan_type[1])
    \/ \E k \in 1..Len(node.children) : _has_index_scan(node.children[k])

RECURSIVE _extract_tables(_)
_extract_tables(node) ==
    {node.table_name[k] : k \in 1..Len(node.table_name)}
        \cup UNION {_extract_tables(node.children[k]) : k \in 1..Len(node.children)}

\* analyze_plan (lines 96-120); list(set(...)) is modelled by the set
analyze_plan(node) ==
    [plan_depth |-> _calculate_depth(node, 0),
     scan_types |-> _extract_scan_types(node),
     join_types |-> _extract_join_types(node),
     has_sequential_scan |-> _has_sequential_scan(node),
     has_index_scan |-> _has_index_scan(node),
     tables_scanned |-> _extract_tables(node)]

InitPlanParser ==
    /\ pp_pc = "start"
    /\ \E n \in 1..MaxPlanNodes :
           \E parent \in ParentArrays(n) :
               \E label \in [1..n -> NodeLabels] :
                   \E form \in PlanForms :
                       /\ form # "bare" => n <= MaxListNodes
                       /\ plan_input = <<PlanInput(parent, label, form)>>
    /\ plan_node = <<>>
    /\ plan_analysis = <<>>

ParsePlanJson ==
    /\ pp_pc = "start"
    /\ LET r == parse_plan_json(plan_input[1])
       IN  /\ plan_node' = r.node
           /\ pp_pc' = IF r.raised THEN "raised" ELSE "parsed"
    /\ UNCHANGED <<plan_input, plan_analysis>>
    /\ UNCHANGED notPlan

AnalyzePlan ==
    /\ pp_pc = "parsed"
    /\ plan_analysis' = <<analyze_plan(plan_node[1])>>
    /\ pp_pc' = "analyzed"
    /\ UNCHANGED <<plan_input, plan_node>>
    /\ UNCHANGED notPlan

InitPlan ==
    IdleBench /\ IdleGem /\ IdleRules /\ InitPlanParser /\ IdleFeatures /\ IdleCatalog
        /\ IdleRest

NextPlan == ParsePlanJson \/ AnalyzePlan

SpecPlan == InitPlan /\ [][NextPlan]_vars

\* the parser and the rule engine on the same plan JSON
SequentialScanSuggested(ep) ==
    \E k \in 1..Len(_apply_plan_based_rules(ep)) :
        LET sg == _apply_plan_based_rules(ep)[k]
        IN  /\ sg.suggestion_type = "INDEX"
            /\ sg.message = "sequential_scan"
            /\ sg.confidence = 80
            /\ sg.estimated_improvement_ms = RatInt(300)
            /\ sg.implementation_cost = "MEDIUM"

ParserHasSequentialScan(plan_json) ==
    LET r == parse_plan_json(plan_json)
    IN  ~r.raised /\ _has_sequential_scan(r.node[1])

\* C13: the plan-based INDEX suggestion (0.8, 300ms, MEDIUM) is emitted
\* exactly when PlanParser's has_sequential_scan is true for the same plan
\* JSON; "Seq Scan" in another field of the plan does not trigger it.
C13_SuggestionIffParserSeqScan ==
    (re_pc \in {"returned", "raised"}
     /\ execution_plan # <<>>
     /\ execution_plan[1].plan_json # <<>>) =>
        (SequentialScanSuggested(execution_plan)
            <=> ParserHasSequentialScan(execution_plan[1].plan_json[1]))

RECURSIVE JsonEntries(_)
\* a JSON value and every entry of its nested "Plans" lists
JsonEntries(v) ==
    {v} \cup UNION {JsonEntries(v.plans[k]) : k \in 1..Len(v.plans)}

\* the plan handed to _parse_node: the first item of a list, else the value
PlanRoot(p) == IF p.kind = "array" THEN p.plans[1] ELSE p

MalformedPlan(p) ==
    \/ p.kind = "array" /\ p.plans = <<>>
    \/ \E e \in JsonEntries(PlanRoot(p)) : e.kind # "object"

\* C14: parse_plan_json fails with an error and returns no tree when the
\* root (after unwrapping a list) is not a JSON object or when any nested
\* "Plans" entry is not an object; no partial tree is returned.
C14_MalformedPlanRaises ==
    (pp_pc # "start" /\ MalformedPlan(plan_input[1])) =>
        /\ pp_pc = "raised"
        /\ plan_node = <<>>
        /\ plan_analysis = <<>>

C14_Witness ==
    /\ pp_pc = "raised"
    /\ plan_input[1].kind = "object"
    /\ Len(plan_input[1].plans) = 2
    /\ plan_input[1].plans[1].kind = "object"
    /\ plan_input[1].plans[2].kind = "object"
    /\ Len(plan_input[1].plans[2].plans) = 1
    /\ plan_input[1].plans[2].plans[1].kind = "string"
    /\ plan_node = <<>>

RECURSIVE LongestPath(_)
\* the number of edges on the longest path from a JSON object to a leaf
LongestPath(v) ==
    IF v.plans = <<>> THEN 0
    ELSE 1 + MaxOf({LongestPath(v.plans[k]) : k \in 1..Len(v.plans)})

\* C15: plan_depth is the maximum number of edges on a path from the root
\* of the plan to a leaf; it is 0 for a plan of a single node.
C15_PlanDepthIsLongestPath ==
    pp_pc = "analyzed" =>
        /\ plan_analysis[1].plan_depth = LongestPath(PlanRoot(plan_input[1]))
        /\ PlanRoot(plan_input[1]).plans = <<>> => plan_analysis[1].plan_depth = 0

C15_Witness ==
    /\ pp_pc = "analyzed"
    /\ plan_analysis[1].plan_depth = 2
    /\ Len(plan_node[1].children) = 2
    /\ Len(plan_node[1].children[1].children) = 1
    /\ plan_node[1].children[2].children = <<>>

RECURSIVE PlanNodes(_)
\* the nodes of a parsed plan tree
PlanNodes(node) ==
    {node} \cup UNION {PlanNodes(node.children[k]) : k \in 1..Len(node.children)}

\* C16: has_sequential_scan is true exactly when some node of the tree has a
\* scan_type containing "Seq Scan", and has_index_scan exactly when some
\* node has a scan_type containing "Index Scan"; a node has a scan_type
\* only when its node type contains "Scan".
C16_ScanFlagsIffSomeNode ==
    pp_pc = "analyzed" =>
        LET nodes == PlanNodes(plan_node[1])
        IN  /\ plan_analysis[1].has_sequential_scan
                <=> \E nd \in nodes :
                        nd.scan_type # <<>> /\ HasSeqScanText(nd.scan_type[1])
            /\ plan_analysis[1].has_index_scan
                <=> \E nd \in nodes :
                        nd.scan_type # <<>> /\ HasIndexScanText(nd.scan_type[1])
            /\ \A nd \in nodes :
                   nd.scan_type = IF HasScanText(nd.node_type) THEN <<nd.node_type>>
                                  ELSE <<>>

C16_Witness ==
    /\ pp_pc = "analyzed"
    /\ plan_node[1].node_type = "Hash Join"
    /\ plan_node[1].scan_type = <<>>
    /\ Len(plan_node[1].children) = 2
    /\ plan_node[1].children[1].scan_type = <<"Parallel Seq Scan">>
    /\ plan_node[1].children[2].scan_type = <<"Index Scan">>
    /\ plan_analysis[1].has_sequential_scan
    /\ plan_analysis[1].has_index_scan

(***************************************************************************)
(* FeatureExtractor.extract_query_features                                 *)
(* (src/app/services/feature_extractor.py).  A query text is described by  *)
(* what the code reads from it: its length, whether sqlglot parses it,     *)
(* what find_all yields on the tree when it does, what the fallback        *)
(* regexes find in the text, and which keywords the text contains.         *)
(* complexity_score is counted in thousandths.                             *)
(***************************************************************************)
MaxJoins == 3

MaxSubqueries == 3

QueryLengths == {0, 300, 1200}

\* SELECT * / WHERE / number of distinct tables, as one path sees them
ClauseFacts ==
    {[star |-> FALSE, where |-> FALSE, tables |-> 0],
     [star |-> TRUE,  where |-> FALSE, tables |-> 1],
     [star |-> FALSE, where |-> TRUE,  tables |-> 2]}

\* what find_all(exp.Join / Subquery / Select / ...) yields on a tree
TreeFacts ==
    [joins : 0..MaxJoins, subqueries : 0..MaxSubqueries,
     selects : {0, 1, MaxSubqueries + 1}, clauses : ClauseFacts, aggregate : BOOLEAN]

\* what the fallback regexes find in the text
RegexFacts ==
    [joins : 0..MaxJoins, paren_selects : 0..MaxSubqueries,
     clauses : ClauseFacts, aggregate : BOOLEAN]

KeywordSets == {{}, {"ORDER BY", "LIMIT"}, {"GROUP BY", "HAVING", "DISTINCT"}}

\* a text that parses is explored with two regex readings (the regexes are
\* not run on it), a text that does not parse has no tree
QueryInputs ==
    {q \in [length : QueryLengths, tree : {<<>>} \cup {<<t>> : t \in TreeFacts},
            regex : RegexFacts, union : BOOLEAN, exists_in : BOOLEAN,
            keywords : KeywordSets] :
        q.tree # <<>> =>
            /\ q.regex.joins \in {0, MaxJoins}
            /\ q.regex.paren_selects = 0
            /\ q.regex.clauses.tables = 0
            /\ ~q.regex.aggregate
            /\ q.keywords # {}}

_try_parse_sql_reraise(q) ==
    IF q.tree # <<>> THEN [raised |-> FALSE, tree |-> q.tree]
    ELSE [raised |-> TRUE, tree |-> <<>>]

\* _try_parse_sql (lines 119-129): the tree, or None when parse_one raises
_try_parse_sql(q) ==
    IF q.tree # <<>> THEN [raised |-> FALSE, tree |-> q.tree]
    ELSE [raised |-> FALSE, tree |-> <<>>]

_count_joins_ast(q, tree) ==
    IF tree # <<>> THEN tree[1].joins ELSE q.regex.joins

_has_select_star_ast(q, tree) ==
    IF tree # <<>> THEN tree[1].clauses.star ELSE q.regex.clauses.star

_has_where_clause_ast(q, tree) ==
    IF tree # <<>> THEN tree[1].clauses.where ELSE q.regex.clauses.where

_count_subqueries_ast(tree, q) ==
    IF tree # <<>>
    THEN LET subquery_count == tree[1].subqueries
             select_count   == tree[1].selects
         IN  IF select_count > 0
             THEN MaxOf({subquery_count, MaxOf({0, select_count - 1})})
             ELSE subquery_count
    ELSE q.regex.paren_selects

_count_tables_ast(tree, q) ==
    IF tree # <<>> THEN tree[1].clauses.tables ELSE q.regex.clauses.tables

_has_aggregate_functions_ast(tree, q) ==
    IF tree # <<>> THEN tree[1].aggregate ELSE q.regex.aggregate

MinOf(a, b) == IF a <= b THEN a ELSE b

ComplexityTerms(q, num_joins, num_subqueries, has_aggregate) ==
    MinOf(q.length, 1000)
        + MinOf(num_joins * 150, 400)
        + MinOf(num_subqueries * 250, 500)
        + (IF has_aggregate THEN 80 ELSE 0)
        + (IF q.union THEN 120 ELSE 0)
        + (IF q.exists_in THEN 80 ELSE 0)

_calculate_complexity_score_uncapped(q, num_joins, num_subqueries, has_aggregate) ==
    ComplexityTerms(q, num_joins, num_subqueries, has_aggregate)

\* _calculate_complexity_score_with_ast (lines 234-251), in thousandths
_calculate_complexity_score_with_ast(q, num_joins, num_subqueries, has_aggregate) ==
    MinOf(ComplexityTerms(q, num_joins, num_subqueries, has_aggregate), 1000)

\* extract_query_features (lines 20-52)
extract_query_features(q, tree) ==
    LET num_joins      == _count_joins_ast(q, tree)
        num_subqueries == _count_subqueries_ast(tree, q)
        has_aggregate  == _has_aggregate_functions_ast(tree, q)
    IN  [num_joins |-> num_joins,
         has_select_star |-> _has_select_star_ast(q, tree),
         has_where_clause |-> _has_where_clause_ast(q, tree),
         num_subqueries |-> num_subqueries,
         query_length |-> q.length,
         num_tables |-> _count_tables_ast(tree, q),
         has_order_by |-> "ORDER BY" \in q.keywords,
         has_group_by |-> "GROUP BY" \in q.keywords,
         has_having |-> "HAVING" \in q.keywords,
         has_limit |-> "LIMIT" \in q.keywords,
         has_distinct |-> "DISTINCT" \in q.keywords,
         has_aggregate |-> has_aggregate,
         complexity_score |->
             _calculate_complexity_score_with_ast(q, num_joins, num_subqueries,
                                                  has_aggregate)]

InitFeatureExtractor ==
    /\ fe_pc = "start"
    /\ fe_query \in {<<q>> : q \in QueryInputs}
    /\ fe_features = <<>>
    /\ fe_raised = FALSE

ExtractQueryFeatures ==
    /\ fe_pc = "start"
    /\ LET parsed == _try_parse_sql(fe_query[1])
       IN  IF parsed.raised
           THEN /\ fe_raised' = TRUE
                /\ fe_features' = <<>>
                /\ fe_pc' = "raised"
           ELSE /\ fe_raised' = FALSE
                /\ fe_features' = <<extract_query_features(fe_query[1], parsed.tree)>>
                /\ fe_pc' = "returned"
    /\ UNCHANGED fe_query
    /\ UNCHANGED notFeatures

InitFeatures ==
    IdleBench /\ IdleGem /\ IdleRules /\ IdlePlan /\ InitFeatureExtractor /\ IdleCatalog
        /\ IdleRest

NextFeatures == ExtractQueryFeatures

SpecFeatures == InitFeatures /\ [][NextFeatures]_vars

\* C17: complexity_score is always within [0,1]; with the query text and
\* has_aggregate held fixed it never decreases when num_joins or
\* num_subqueries grows; the joins add at most 0.4 and the subqueries at
\* most 0.5.
C17_ScoreBoundedAndMonotone ==
    fe_pc = "returned" =>
        LET q == fe_query[1]
            f == fe_features[1]
            score(j, s) == _calculate_complexity_score_with_ast(q, j, s, f.has_aggregate)
        IN  /\ f.complexity_score = score(f.num_joins, f.num_subqueries)
            /\ f.complexity_score \in 0..1000
            /\ \A j \in 0..MaxJoins, s \in 0..MaxSubqueries :
                   /\ score(j, s) \in 0..1000
                   /\ score(j, s) <= score(j + 1, s)
                   /\ score(j, s) <= score(j, s + 1)
                   /\ score(j, s) <= score(0, s) + 400
                   /\ score(j, s) <= score(j, 0) + 500

C17_Witness ==
    /\ fe_pc = "returned"
    /\ fe_features[1].num_joins = MaxJoins
    /\ fe_features[1].num_subqueries = MaxSubqueries
    /\ fe_features[1].complexity_score = 1000
    /\ ComplexityTerms(fe_query[1], MaxJoins, MaxSubqueries,
                       fe_features[1].has_aggregate) > 1000

FeatureNames ==
    {"num_joins", "has_select_star", "has_where_clause", "num_subqueries",
     "query_length", "num_tables", "has_order_by", "has_group_by", "has_having",
     "has_limit", "has_distinct", "has_aggregate", "complexity_score"}

\* C18: extract_query_features never fails because the text cannot be
\* parsed: without a tree it returns the values the regexes find, and the
\* returned mapping has the same feature names on both paths.
C18_FallbackSameFeatureNames ==
    fe_pc # "start" =>
        /\ fe_pc = "returned"
        /\ ~fe_raised
        /\ DOMAIN fe_features[1] = FeatureNames
        /\ fe_query[1].tree = <<>> =>
               /\ fe_features[1].num_joins = fe_query[1].regex.joins
               /\ fe_features[1].num_subqueries = fe_query[1].regex.paren_selects
               /\ fe_features[1].num_tables = fe_query[1].regex.clauses.tables
               /\ fe_features[1].has_select_star = fe_query[1].regex.clauses.star
               /\ fe_features[1].has_where_clause = fe_query[1].regex.clauses.where
               /\ fe_features[1].has_aggregate = fe_query[1].regex.aggregate

C18_Witness ==
    /\ fe_pc = "returned"
    /\ fe_query[1].tree = <<>>
    /\ fe_features[1].num_joins = 2
    /\ fe_features[1].has_where_clause
    /\ DOMAIN fe_features[1] = FeatureNames

(***************************************************************************)
(* FeatureExtractor._calculate_indexed_tables_pct and _estimate_table_size *)
(* (src/app/services/feature_extractor.py, lines 256-329), called one      *)
(* after the other by create_query_features (lines 96-97).  Each catalog   *)
(* query is one step; its outcome is an input.  Sizes are counted in MB.   *)
(***************************************************************************)
MaxTables == 2

CatalogTables == {"users", "orders", "sales.audit"}

\* plan_features.get("tables_scanned", []): list(set(...)) of the parser, so
\* without duplicates and in any order; empty without an execution plan
TablesScanned ==
    {ts \in SeqsUpTo(CatalogTables, MaxTables) :
        \A j, k \in 1..Len(ts) : j # k => ts[j] # ts[k]}

\* SELECT COUNT(*) FROM pg_indexes ...: the count is positive, is zero, or
\* session.execute raises
IndexLookupOutcomes == {"indexed", "none", "error"}

\* pg_total_relation_size in MB (0 also for `res.scalar() or 0`)
SizesMb == {0, 2, 5}

Lookup(catalog, table, outcome) ==
    [catalog |-> catalog, table |-> table, outcome |-> outcome]

IndexLookupFailedAborts(count, k) ==
    [raised |-> TRUE, indexed_count |-> count, k |-> k]

\* the except clause of the index loop (lines 282-284): logged, then the
\* loop goes on with the next table
IndexLookupFailed(count, k) ==
    [raised |-> FALSE, indexed_count |-> count, k |-> k + 1]

\* lines 279-281
IndexLookupAnswered(count, k, outcome) ==
    [raised |-> FALSE,
     indexed_count |-> IF outcome = "indexed" THEN count + 1 ELSE count,
     k |-> k + 1]

\* lines 286-288
IndexedPct(count, n) == IF n = 0 THEN RatInt(0) ELSE Rat(count * 100, n)

\* lines 327-329
AverageSize(total, n) == IF n = 0 THEN RatInt(0) ELSE Rat(total, n)

InitCatalogLookups ==
    /\ cf_pc = "start"
    /\ tables_scanned \in TablesScanned
    /\ cf_k = 0
    /\ indexed_count = 0
    /\ checked = 0
    /\ total_mb = 0
    /\ counted = 0
    /\ indexed_tables_pct = <<>>
    /\ avg_table_size_mb = <<>>
    /\ lookups = <<>>

\* _calculate_indexed_tables_pct up to its loop (lines 261-266)
CalculateIndexedPctStart ==
    /\ cf_pc = "start"
    /\ IF tables_scanned = <<>>
       THEN /\ indexed_tables_pct' = <<RatInt(0)>>
            /\ cf_pc' = "size_start"
       ELSE /\ indexed_tables_pct' = indexed_tables_pct
            /\ cf_pc' = "pct_loop"
    /\ indexed_count' = 0
    /\ checked' = 0
    /\ cf_k' = 0
    /\ UNCHANGED <<tables_scanned, total_mb, counted, avg_table_size_mb, lookups>>
    /\ UNCHANGED notCatalog

\* one pass of the loop (lines 267-284)
IndexLookup ==
    /\ cf_pc = "pct_loop"
    /\ cf_k < Len(tables_scanned)
    /\ \E outcome \in IndexLookupOutcomes :
           LET t == tables_scanned[cf_k + 1]
               r == IF outcome = "error"
                    THEN IndexLookupFailed(indexed_count, cf_k)
                    ELSE IndexLookupAnswered(indexed_count, cf_k, outcome)
           IN  /\ checked' = checked + 1
               /\ lookups' = Append(lookups, Lookup("pg_indexes", t, outcome))
               /\ indexed_count' = r.indexed_count
               /\ cf_k' = r.k
               /\ cf_pc' = IF r.raised THEN "raised" ELSE "pct_loop"
    /\ UNCHANGED <<tables_scanned, total_mb, counted, indexed_tables_pct,
                   avg_table_size_mb>>
    /\ UNCHANGED notCatalog

\* lines 286-288
CalculateIndexedPctReturn ==
    /\ cf_pc = "pct_loop"
    /\ cf_k = Len(tables_scanned)
    /\ indexed_tables_pct' = <<IndexedPct(indexed_count, checked)>>
    /\ cf_pc' = "size_start"
    /\ UNCHANGED <<tables_scanned, cf_k, indexed_count, checked, total_mb, counted,
                   avg_table_size_mb, lookups>>
    /\ UNCHANGED notCatalog

\* _estimate_table_size up to its loop (lines 295-300)
EstimateTableSizeStart ==
    /\ cf_pc = "size_start"
    /\ IF tables_scanned = <<>>
       THEN /\ avg_table_size_mb' = <<RatInt(0)>>
            /\ cf_pc' = "done"
       ELSE /\ avg_table_size_mb' = avg_table_size_mb
            /\ cf_pc' = "size_loop"
    /\ total_mb' = 0
    /\ counted' = 0
    /\ cf_k' = 0
    /\ UNCHANGED <<tables_scanned, indexed_count, checked, indexed_tables_pct, lookups>>
    /\ UNCHANGED notCatalog

\* one pass of the loop (lines 301-325): a table is counted only when its
\* size was fetched
SizeLookup ==
    /\ cf_pc = "size_loop"
    /\ cf_k < Len(tables_scanned)
    /\ \E outcome \in SizesMb \cup {-1} :
           LET t == tables_scanned[cf_k + 1]
           IN  /\ lookups' = Append(lookups,
                                    Lookup("pg_class", t,
                                           IF outcome = -1 THEN "error" ELSE "size"))
               /\ total_mb' = IF outcome = -1 THEN total_mb ELSE total_mb + outcome
               /\ counted' = IF outcome = -1 THEN counted ELSE counted + 1
    /\ cf_k' = cf_k + 1
    /\ UNCHANGED <<cf_pc, tables_scanned, indexed_count, checked, indexed_tables_pct,
                   avg_table_size_mb>>
    /\ UNCHANGED notCatalog

\* lines 327-329
EstimateTableSizeReturn ==
    /\ cf_pc = "size_loop"
    /\ cf_k = Len(tables_scanned)
    /\ avg_table_size_mb' = <<AverageSize(total_mb, counted)>>
    /\ cf_pc' = "done"
    /\ UNCHANGED <<tables_scanned, cf_k, indexed_count, checked, total_mb, counted,
                   indexed_tables_pct, lookups>>
    /\ UNCHANGED notCatalog

InitCatalog ==
    IdleBench /\ IdleGem /\ IdleRules /\ IdlePlan /\ IdleFeatures /\ InitCatalogLookups
        /\ IdleRest

NextCatalog ==
    \/ CalculateIndexedPctStart
    \/ IndexLookup
    \/ CalculateIndexedPctReturn
    \/ EstimateTableSizeStart
    \/ SizeLookup
    \/ EstimateTableSizeReturn

SpecCatalog == InitCatalog /\ [][NextCatalog]_vars

\* the catalog queries a complete run issues: every scanned table in
\* pg_indexes, then every scanned table in pg_class
ExpectedLookups ==
    [k \in 1..(2 * Len(tables_scanned)) |->
        IF k <= Len(tables_scanned)
        THEN <<"pg_indexes", tables_scanned[k]>>
        ELSE <<"pg_class", tables_scanned[k - Len(tables_scanned)]>>]

\* C19: a catalog lookup error for one table never aborts
\* _calculate_indexed_tables_pct or _estimate_table_size: no exception
\* escapes, every remaining table is still looked up, and both results are
\* numbers, indexed_tables_pct within [0,100] and 0.0 without scanned tables.
C19_LookupErrorsAreLocal ==
    /\ cf_pc # "raised"
    /\ cf_pc = "done" =>
           /\ Len(lookups) = 2 * Len(tables_scanned)
           /\ \A k \in 1..Len(lookups) :
                  <<lookups[k].catalog, lookups[k].table>> = ExpectedLookups[k]
           /\ indexed_tables_pct # <<>>
           /\ indexed_tables_pct[1].d > 0
           /\ 0 <= indexed_tables_pct[1].n
           /\ indexed_tables_pct[1].n <= 100 * indexed_tables_pct[1].d
           /\ avg_table_size_mb # <<>>
           /\ avg_table_size_mb[1].d > 0
           /\ avg_table_size_mb[1].n >= 0
           /\ tables_scanned = <<>> =>
                  /\ indexed_tables_pct[1] = RatInt(0)
                  /\ avg_table_size_mb[1] = RatInt(0)

C19_Witness ==
    /\ cf_pc = "done"
    /\ Len(tables_scanned) = 2
    /\ lookups[1].outcome = "error"
    /\ lookups[2].outcome = "indexed"
    /\ lookups[3].outcome = "error"
    /\ lookups[4].outcome = "size"
    /\ indexed_tables_pct = <<RatInt(50)>>
    /\ avg_table_size_mb = <<RatInt(5)>>

\* C20: when the write of the benchmark result fails,
\* run_comprehensive_benchmark still returns the measured result unchanged
\* (success = true, the measured timings and improvement values), and the
\* failed write is rolled back: no row is left in the result table.
C20_WriteFailureKeepsResult ==
    (pc = "done" /\ session_state = "rolled_back") =>
        /\ result # <<>>
        /\ result[1].success
        /\ result[1] = SuccessResult(optimization_result[1], original_times,
                                     optimized_times)
        /\ result[1].original_times = original_times
        /\ result[1].optimized_times = optimized_times
        /\ db_rows = <<>>

C20_Witness ==
    /\ pc = "done"
    /\ session_state = "rolled_back"
    /\ result[1].success
    /\ SumSeq(result[1].original_times) > 0
    /\ result[1].improvement_ms # RatInt(0)
    /\ db_rows = <<>>

\* C21: when session.commit() raises, generate_suggestions does not raise
\* to its caller: it returns, and what it returns is the in-memory list of
\* the suggestions it added to the session.
C21_CommitFailureStillReturns ==
    re_pc # "start" =>
        /\ re_pc = "returned"
        /\ suggestions = session_new

\* C23: in _benchmark_query the delay separates every two consecutive
\* iterations, whether the earlier one succeeded or failed: no fetch follows
\* a fetch of the same call without a sleep in between.
C23_DelayBetweenIterations ==
    \A k \in 1..(Len(log) - 1) :
        (log[k].ev \in {"fetch_ok", "fetch_fail"} /\ log[k + 1].q = log[k].q) =>
            log[k + 1].ev \notin {"fetch_ok", "fetch_fail"}

\* C28: entry k of the series _benchmark_query returns is the sentinel only
\* if iteration k failed or the connection could not be established or
\* warmed up; when connect, warm-up and all iterations succeed the measured
\* durations are returned even if the close fails.
C28_SentinelOnlyForFailures ==
    \A q \in Calls :
        HasSeries(q) =>
            LET ts == SeriesOf(q)
                fe == Fetches(q)
            IN  /\ \A k \in 1..Len(ts) :
                       ts[k] = SENTINEL =>
                           \/ Happened(q, "connect_fail")
                           \/ Happened(q, "warmup_fail")
                           \/ k <= Len(fe) /\ fe[k].ev = "fetch_fail"
                /\ (Happened(q, "warmup_ok") /\ ~Happened(q, "fetch_fail")) =>
                       ts = [k \in 1..Len(fe) |-> fe[k].d]

\* C30: with iterations = 0 run_comprehensive_benchmark returns a failure
\* result: both timing series are empty, their mean cannot be computed, and
\* the result has success = false, an error message, original_times =
\* optimized_times = [0.0], the original query as optimized_query and all
\* averages and improvements 0.
C30_ZeroIterationsFails ==
    (pc = "done" /\ iterations = 0) =>
        /\ original_times = <<>>
        /\ optimized_times = <<>>
        /\ result # <<>>
        /\ ~result[1].success
        /\ result[1].error_message # "None"
        /\ result[1].original_times = <<0>>
        /\ result[1].optimized_times = <<0>>
        /\ result[1].optimized_query = OriginalQuery
        /\ result[1].original_query = OriginalQuery
        /\ result[1].original_avg_ms = RatInt(0)
        /\ result[1].optimized_avg_ms = RatInt(0)
        /\ result[1].improvement_ms = RatInt(0)
        /\ result[1].improvement_pct = RatInt(0)

C30_Witness ==
    /\ pc = "done"
    /\ iterations = 0
    /\ Happened("orig", "close_ok")
    /\ Happened("opt", "close_ok")
    /\ optimization_result[1].optimized_query # OriginalQuery
    /\ ~result[1].success
    /\ result[1].optimized_query = OriginalQuery

\* C24: a scanned table whose lookup fails still counts among the scanned
\* tables and contributes 0: indexed_tables_pct and avg_table_size_mb are
\* both computed over the number of scanned tables.
C24_SameDenominator ==
    (cf_pc = "done" /\ tables_scanned # <<>>) =>
        /\ indexed_tables_pct[1] = Rat(indexed_count * 100, Len(tables_scanned))
        /\ avg_table_size_mb[1] = Rat(total_mb, Len(tables_scanned))

(***************************************************************************)
(* The nodes analyze_plan visits.  A node is named by its path from the    *)
(* root (the child positions followed); each helper of analyze_plan is a   *)
(* recursive walk of its own over the tree (plan_parser.py, lines 109-117).*)
(***************************************************************************)
RECURSIVE FlattenSeq(_)
FlattenSeq(ss) == IF ss = <<>> THEN <<>> ELSE Head(ss) \o FlattenSeq(Tail(ss))

RECURSIVE FullWalk(_, _)
\* the visits of _calculate_depth and of each _extract_* helper: the node,
\* then every child in turn
FullWalk(node, path) ==
    <<path>> \o FlattenSeq([k \in 1..Len(node.children) |->
                               FullWalk(node.children[k], Append(path, k))])

\* "Seq Scan" in s or "Index Scan" in s, as the flag asks
HasFlagText(flag, s) ==
    IF flag = "has_sequential_scan" THEN HasSeqScanText(s) ELSE HasIndexScanText(s)

RECURSIVE FlagWalk(_, _, _)
RECURSIVE FlagWalkChildren(_, _, _, _)
\* the visits of _has_sequential_scan / _has_index_scan: the walk returns
\* at the first node whose scan_type matches
FlagWalk(flag, node, path) ==
    IF node.scan_type # <<>> /\ HasFlagText(flag, node.scan_type[1])
    THEN [found |-> TRUE, visits |-> <<path>>]
    ELSE LET rest == FlagWalkChildren(flag, node, path, 1)
         IN  [found |-> rest.found, visits |-> <<path>> \o rest.visits]

FlagWalkChildren(flag, node, path, k) ==
    IF k > Len(node.children) THEN [found |-> FALSE, visits |-> <<>>]
    ELSE LET first == FlagWalk(flag, node.children[k], Append(path, k))
         IN  IF first.found THEN first
             ELSE LET rest == FlagWalkChildren(flag, node, path, k + 1)
                  IN  [found |-> rest.found, visits |-> first.visits \o rest.visits]

\* the visits of one analyze_plan call, in the order of lines 109-117
AnalyzePlanVisits(node) ==
    FullWalk(node, <<>>)
        \o FullWalk(node, <<>>)
        \o FullWalk(node, <<>>)
        \o FlagWalk("has_sequential_scan", node, <<>>).visits
        \o FlagWalk("has_index_scan", node, <<>>).visits
        \o FullWalk(node, <<>>)
        \o FullWalk(node, <<>>)

\* C26: during one analyze_plan call no PlanNode is visited more than once.
C26_NoNodeVisitedTwice ==
    pp_pc = "analyzed" =>
        LET visits == AnalyzePlanVisits(plan_node[1])
        IN  \A j, k \in 1..Len(visits) : j # k => visits[j] # visits[k]

(***************************************************************************)
(* BenchmarkEngine._extract_table_schemas on its own                        *)
(* (src/app/services/benchmark_engine.py, lines 175-208): the tables the    *)
(* regex finds, the order in which the set is iterated and the catalog's    *)
(* answer for each table are the inputs.                                    *)
(***************************************************************************)
SchemaTables == Tables \cup {"items"}

InitExtractSchemas ==
    /\ sx_pc = "start"
    /\ \E S \in SUBSET SchemaTables :
           /\ sx_order \in Orders(S)
           /\ sx_outcome \in [S -> LookupOutcomes]
    /\ sx_schemas = <<>>

ExtractSchemas ==
    /\ sx_pc = "start"
    /\ sx_schemas' = <<_extract_table_schemas(sx_order, sx_outcome)>>
    /\ sx_pc' = "returned"
    /\ UNCHANGED <<sx_order, sx_outcome>>
    /\ UNCHANGED notSchemas

InitSchemas ==
    IdleBench /\ IdleGem /\ IdleRules /\ IdlePlan /\ IdleFeatures /\ IdleCatalog
        /\ InitExtractSchemas /\ IdleRoutes /\ IdleBatch

NextSchemas == ExtractSchemas

SpecSchemas == InitSchemas /\ [][NextSchemas]_vars

\* C22: _extract_table_schemas never raises, and when the catalog lookup
\* fails for a referenced table it returns an empty map, not the map of the
\* tables looked up before the failure.
C22_EmptyMapOnLookupFailure ==
    sx_pc # "start" =>
        /\ sx_pc = "returned"
        /\ sx_schemas # <<>>
        /\ (\E k \in 1..Len(sx_order) : sx_outcome[sx_order[k]] = "fail") =>
               sx_schemas[1] = EmptyMap

(***************************************************************************)
(* run_batch_benchmark_task (src/app/api/routes/benchmark.py, lines        *)
(* 297-341).  One step handles one query in a session of its own; what     *)
(* happens to the query is an input: the session, the QueryLog or the      *)
(* suggestion lookup raises, generate_suggestions raises, or               *)
(* run_comprehensive_benchmark (which catches every Exception itself)      *)
(* returns a result with success true or false.                            *)
(***************************************************************************)
MaxQueries == 3

QueryOutcomes ==
    {"lookup raised", "generate raised", "success", "not success"}

BatchCount(ok, ko, aborted) == [successful |-> ok, failed |-> ko, aborted |-> aborted]

QueryRaisedAborts(ok, ko) == BatchCount(ok, ko, TRUE)

\* the except clause inside the loop (lines 334-336)
QueryRaised(ok, ko) == BatchCount(ok, ko + 1, FALSE)

\* lines 326-332
QueryBenchmarked(ok, ko, success) ==
    IF success THEN BatchCount(ok + 1, ko, FALSE) ELSE BatchCount(ok, ko + 1, FALSE)

InitBatchTask ==
    /\ bt_pc = "loop"
    /\ queries_data \in 0..MaxQueries
    /\ bt_k = 0
    /\ successful = 0
    /\ failed = 0
    /\ bt_outcomes = <<>>

\* one pass of the loop body (lines 307-336), in session number bt_k + 1
BatchQuery ==
    /\ bt_pc = "loop"
    /\ bt_k < queries_data
    /\ \E outcome \in QueryOutcomes :
           LET c == IF outcome \in {"lookup raised", "generate raised"}
                    THEN QueryRaised(successful, failed)
                    ELSE QueryBenchmarked(successful, failed, outcome = "success")
           IN  /\ successful' = c.successful
               /\ failed' = c.failed
               /\ bt_pc' = IF c.aborted THEN "aborted" ELSE "loop"
               /\ bt_outcomes' = Append(bt_outcomes,
                                        [session |-> bt_k + 1, outcome |-> outcome])
    /\ bt_k' = bt_k + 1
    /\ UNCHANGED queries_data
    /\ UNCHANGED notBatch

\* line 338
BatchEnd ==
    /\ bt_pc = "loop"
    /\ bt_k = queries_data
    /\ bt_pc' = "done"
    /\ UNCHANGED <<queries_data, bt_k, successful, failed, bt_outcomes>>
    /\ UNCHANGED notBatch

InitBatch ==
    IdleBench /\ IdleGem /\ IdleRules /\ IdlePlan /\ IdleFeatures /\ IdleCatalog
        /\ IdleSchemas /\ IdleRoutes /\ InitBatchTask

NextBatch == BatchQuery \/ BatchEnd

SpecBatch == InitBatch /\ [][NextBatch]_vars

CountOutcome(S) ==
    Cardinality({k \in 1..Len(bt_outcomes) : bt_outcomes[k].outcome \in S})

\* C27: every query of the batch is handled in a session of its own; a
\* query that raises or whose result has success = false is counted as
\* failed and the remaining queries are still benchmarked, so that at the
\* end successful + failed is the number of queries given.
C27_EveryQueryCounted ==
    /\ bt_pc # "aborted"
    /\ bt_pc \in {"loop", "done"} =>
           /\ Len(bt_outcomes) = bt_k
           /\ \A k \in 1..Len(bt_outcomes) : bt_outcomes[k].session = k
           /\ successful = CountOutcome({"success"})
           /\ failed = CountOutcome(QueryOutcomes \ {"success"})
    /\ bt_pc = "done" =>
           /\ bt_k = queries_data
           /\ successful + failed = queries_data

C27_Witness ==
    /\ bt_pc = "done"
    /\ queries_data = 3
    /\ bt_outcomes[1].outcome = "generate raised"
    /\ bt_outcomes[2].outcome = "not success"
    /\ bt_outcomes[3].outcome = "success"
    /\ successful = 1
    /\ failed = 2

(***************************************************************************)
(* The routes that read, generate and delete the suggestions of one query  *)
(* (src/app/api/routes/suggestions.py, src/app/api/routes/benchmark.py).   *)
(* Every request runs in a session of its own over the same database; a    *)
(* request gives way to the others at each await, so one step is one       *)
(* round trip to the database.  The query exists (no 404).                 *)
(***************************************************************************)
MaxRequests == 3

Requests == {"r1", "r2"}

\* GET /{query_id}, POST /{query_id}/generate, DELETE /{query_id},
\* POST /run/{query_id}
Operations == {"get_suggestions", "generate_suggestions", "delete_suggestions",
               "run_benchmark"}

RouteQueryLog ==
    [id |-> QueryId, query_text |-> "select * from users", mean_exec_time |-> 1001,
     calls |-> 1001, total_exec_time |-> 10001]

\* the QueryFeature row of the query, when there is one
RouteFeature ==
    [has_select_star |-> TRUE, has_where_clause |-> FALSE, num_joins |-> 4,
     num_subqueries |-> 1, indexed_tables_pct |-> <<25>>]

\* the ExecutionPlan row of the query, when there is one
RoutePlan ==
    [plan_json |-> <<PlanLeaf("Seq Scan", "users")>>, total_cost |-> <<1001>>,
     plan_depth |-> <<6>>]

NoRequest == [op |-> "none", pc |-> "idle", seen |-> <<>>]

\* what rule_engine.generate_suggestions adds to the session for the call
\* the route makes: run_benchmark passes the query log only
RouteGenerated(op, feature, plan) ==
    IF op = "run_benchmark"
    THEN BindToQuery(GeneratedSuggestions(RouteQueryLog, <<>>, <<>>), RouteQueryLog)
    ELSE BindToQuery(GeneratedSuggestions(RouteQueryLog, feature, plan), RouteQueryLog)

\* the rows a commit inserts: each gets a primary key of its own
NewRows(commit_no, ss) ==
    [k \in 1..Len(ss) |-> [id |-> <<commit_no, k>>, suggestion |-> ss[k]]]

\* the rows left when the rows in `gone` are deleted
RowsWithout(rows, gone) ==
    LET Kept(row) == \A k \in 1..Len(gone) : gone[k].id # row.id
    IN  SelectSeq(rows, Kept)

\* the commits whose rows are in the table
StoredCommits(rows) == {rows[k].id[1] : k \in 1..Len(rows)}

InitRouteState ==
    /\ rt_feature \in {<<>>, <<RouteFeature>>}
    /\ rt_plan \in {<<>>, <<RoutePlan>>}
    /\ rt_rows = <<>>
    /\ rt_req = [r \in Requests |-> NoRequest]
    /\ rt_started = 0
    /\ rt_commits = <<>>

\* a request arrives and its handler loads the query (delete_suggestions
\* does not); generate_suggestions goes on to load the feature and plan rows
ReceiveRequest ==
    /\ rt_started < MaxRequests
    /\ \E r \in Requests, op \in Operations :
           /\ rt_req[r].pc = "idle"
           /\ rt_req' = [rt_req EXCEPT ![r] =
                            [op |-> op,
                             pc |-> IF op = "generate_suggestions" THEN "generate"
                                    ELSE "read",
                             seen |-> <<>>]]
    /\ rt_started' = rt_started + 1
    /\ UNCHANGED <<rt_feature, rt_plan, rt_rows, rt_commits>>
    /\ UNCHANGED notRoutes

\* rule_engine.get_suggestions_for_query and the test on its result
\* (suggestions.py 45-48, 177; benchmark.py 47-49)
ReadSuggestions ==
    /\ \E r \in Requests :
           /\ rt_req[r].pc = "read"
           /\ rt_req' = [rt_req EXCEPT ![r] =
                            IF rt_req[r].op = "delete_suggestions"
                            THEN [op |-> rt_req[r].op, pc |-> "delete", seen |-> rt_rows]
                            ELSE IF rt_rows = <<>>
                                 THEN [op |-> rt_req[r].op, pc |-> "generate",
                                       seen |-> rt_rows]
                                 ELSE NoRequest]
    /\ UNCHANGED <<rt_feature, rt_plan, rt_rows, rt_started, rt_commits>>
    /\ UNCHANGED notRoutes

\* rule_engine.generate_suggestions called by the route and the response;
\* the commit writes the added rows or raises (HTTP 500)
GenerateForRequest ==
    /\ \E r \in Requests :
           /\ rt_req[r].pc = "generate"
           /\ LET kept == RouteGenerated(rt_req[r].op, rt_feature, rt_plan)
              IN  \/ /\ rt_rows' = rt_rows \o NewRows(Len(rt_commits) + 1, kept)
                     /\ rt_commits' = Append(rt_commits,
                                             [req |-> r, op |-> rt_req[r].op,
                                              stored |-> StoredCommits(rt_rows),
                                              added |-> Len(kept)])
                  \/ UNCHANGED <<rt_rows, rt_commits>>
           /\ rt_req' = [rt_req EXCEPT ![r] = NoRequest]
    /\ UNCHANGED <<rt_feature, rt_plan, rt_started>>
    /\ UNCHANGED notRoutes

\* delete_suggestions (suggestions.py 180-183): the rows read are deleted
\* and the commit succeeds, or it raises and nothing is deleted (HTTP 500)
DeleteForRequest ==
    /\ \E r \in Requests :
           /\ rt_req[r].pc = "delete"
           /\ \/ rt_rows' = RowsWithout(rt_rows, rt_req[r].seen)
              \/ UNCHANGED rt_rows
           /\ rt_req' = [rt_req EXCEPT ![r] = NoRequest]
    /\ UNCHANGED <<rt_feature, rt_plan, rt_started, rt_commits>>
    /\ UNCHANGED notRoutes

InitRoutes ==
    IdleBench /\ IdleGem /\ IdleRules /\ IdlePlan /\ IdleFeatures /\ IdleCatalog
        /\ IdleSchemas /\ InitRouteState /\ IdleBatch

NextRoutes ==
    \/ ReceiveRequest
    \/ ReadSuggestions
    \/ GenerateForRequest
    \/ DeleteForRequest

SpecRoutes == InitRoutes /\ [][NextRoutes]_vars

\* C25: whatever requests were served for a query, the number of persisted
\* suggestions of the query never exceeds max_suggestions_per_query.
C25_PersistedWithinCap ==
    Len(rt_rows) <= max_suggestions_per_query

\* C29: two requests that generate on demand (GET suggestions, POST
\* benchmark run) never both persist a suggestion set for the query: when
\* one of them has persisted its set, the other does not add a second set
\* next to it.
C29_OnDemandGenerationOnce ==
    \A j, k \in 1..Len(rt_commits) :
        (/\ j < k
         /\ rt_commits[j].op \in {"get_suggestions", "run_benchmark"}
         /\ rt_commits[k].op \in {"get_suggestions", "run_benchmark"}
         /\ rt_commits[j].added > 0
         /\ rt_commits[k].added > 0) =>
            j \notin rt_commits[k].stored

====
